---- MODULE Spec2Model ----
(***************************************************************************)
(* Model of googlecode-issues-exporter/issues.py: the IssueExporter engine *)
(* (Init, Start, _GetAllPreviousIssues, _CreateComments), the read-only    *)
(* GoogleCodeIssue accessors it uses, and the IssueService port it calls.  *)
(* A run is one process executing Init() then Start(); a run may be        *)
(* interrupted between two service calls and the tool run again.           *)
(***************************************************************************)
EXTENDS Integers, Sequences, FiniteSets, TLC

\* ---- bounds of the model ----
MaxIssues == 2
MaxId == 3
MaxComments == 2
MaxCommentLen == 5
MaxAttachments == 2

VARIABLES
  archive,                      \* _issue_json_data: the list of issue dicts
  gh,                           \* the issue service's state: id -> issue
  pc,                           \* position of the run in Init / Start
  error,                        \* which exception ended the run ("none" if none)
  open_issues,                  \* local of _GetAllPreviousIssues
  issues,                       \* local of _GetAllPreviousIssues (open + closed)
  previously_created_issues,    \* self._previously_created_issues
  issue_total,                  \* self._issue_total
  issue_number,                 \* self._issue_number
  comment_number,               \* self._comment_number
  comment_total,                \* self._comment_total
  skipped_issues,               \* self._skipped_issues
  last_pos,                     \* position in the archive of last_gc_issue
  ridx,                         \* idx of the repair loop
  new_number,                   \* local issue_number of Start (CreateIssue's result)
  calls,                        \* the service calls of the current run, in order
  failed,                       \* the call of the current run that raised
                                \* ServiceError, and after how many calls
  fromEmpty,                    \* the service had no issue before the first run
  \* The history of a service that started empty (FALSE of any other):
  declined,                     \* some CreateIssue has returned the sentinel
  completed,                    \* an earlier run has completed
  createdAll,                   \* an earlier run completed without a sentinel
  \* The text functions (FixUpComment, GoogleCodeComment.GetContent):
  tpc,                          \* which of them has been applied ("idle": none)
  comment_text,                 \* FixUpComment's argument
  fixed_text,                   \* FixUpComment's result
  attachments,                  \* self._comment["attachments"]
  body                          \* GetContent's result

vars == <<archive, gh, pc, error, open_issues, issues,
          previously_created_issues,
          issue_total, issue_number, comment_number, comment_total,
          skipped_issues, last_pos, ridx, new_number, calls, failed,
          fromEmpty, declined, completed, createdAll,
          tpc, comment_text, fixed_text, attachments, body>>

engine == <<open_issues, issues, previously_created_issues, issue_total, issue_number,
            comment_number, comment_total, skipped_issues, last_pos, ridx,
            new_number>>

history == <<fromEmpty, declined, completed, createdAll>>

exporter == <<archive, gh, pc, error, engine, calls, failed, history>>

text == <<tpc, comment_text, fixed_text, attachments, body>>

\* ---- the archive (GoogleCodeIssue) ----

\* The "state" of an archive issue, and the "status" it carries with it: an
\* open issue is Accepted (odd ids) or New (even ids), a closed one Fixed.
\* The engine reads the state only.
States == {"open", "closed"}

Status(i, state) ==
  IF state = "closed" THEN "Fixed"
  ELSE IF i % 2 = 1 THEN "Accepted" ELSE "New"

\* comments.items of an issue with n replies: item 0 is the description.
Items(n) == [k \in 1..(n + 1) |-> k - 1]

\* The title of archive issue i; no archive issue has the title Title(0).
Title(i) == <<"title", i>>

IssueDict(i, state, n) ==
  [id |-> i, title |-> Title(i), status |-> Status(i, state), state |-> state,
   items |-> Items(n)]

Max(S) == CHOOSE m \in S : \A x \in S : x <= m

Min(S) == CHOOSE m \in S : \A x \in S : m <= x

RECURSIVE Ascending(_)
Ascending(S) ==
  IF S = {} THEN <<>> ELSE <<Min(S)>> \o Ascending(S \ {Min(S)})

\* The archives: at most MaxIssues issues with distinct ids in increasing
\* order (an id may be missing: a deleted issue), each of any state and
\* number of replies.
ArchivesOf(ids) ==
  { [k \in 1..Len(ids) |-> IssueDict(ids[k], f[k][1], f[k][2])] :
      f \in [1..Len(ids) -> States \X (0..MaxComments)] }

Archives ==
  UNION { ArchivesOf(Ascending(S)) :
            S \in {T \in SUBSET (1..MaxId) : Cardinality(T) <= MaxIssues} }

Lower(s) ==
  CASE s = "Accepted" -> "accepted"
    [] s = "New" -> "new"
    [] s = "Fixed" -> "fixed"
    [] OTHER -> s

GetId(issue) == issue.id

GetTitle(issue) == issue.title

GetStatus(issue) ==
  LET status == Lower(issue.status)
  IN IF status = "accepted" THEN "open" ELSE status

GetCommentsNewestFirst(issue) ==
  [k \in 1..(Len(issue.items) - 1) |-> issue.items[Len(issue.items) + 1 - k]]

GetComments(issue) == Tail(issue.items)

IsOpenByStatus(issue) == GetStatus(issue) = "open"


\* ("state" in self._issue) is TRUE of every issue of the archives.
IsOpen(issue) == issue.state = "open"

\* ---- the issue service (IssueService) ----

NoIssues == <<>>

\* GetIssues(state): the issues in that state, as dicts with "id", "title"
\* and "comments" (the number of comments).
GetIssues(g, state) ==
  LET ids == Ascending({i \in DOMAIN g : g[i].open = (state = "open")})
  IN [k \in 1..Len(ids) |->
        [id |-> ids[k], title |-> g[ids[k]].title,
         comments |-> Len(g[ids[k]].comments)]]

\* What GetIssues("closed") can answer: the closed issues, or (a service
\* that paginates inconsistently) the closed issues and a stale entry of
\* one issue, from before it had comments.
ClosedAnswers(g) ==
  {GetIssues(g, "closed")} \cup
  { Append(GetIssues(g, "closed"),
           [id |-> i, title |-> g[i].title, comments |-> 0]) : i \in DOMAIN g }

\* CreateIssue: the service numbers a new issue one above its highest.
NextNumber(g) == IF DOMAIN g = {} THEN 1 ELSE Max(DOMAIN g) + 1

SvcCreateIssue(g, issue) ==
  g @@ (NextNumber(g) :> [title |-> GetTitle(issue), comments |-> <<>>,
                          open |-> TRUE])

SvcCreateComment(g, num, src, cmt) ==
  IF num \in DOMAIN g
  THEN [g EXCEPT ![num].comments = Append(@, <<src, cmt>>)]
  ELSE g

SvcCloseIssue(g, num) ==
  IF num \in DOMAIN g THEN [g EXCEPT ![num].open = FALSE] ELSE g

Call(op, phase, pos, num, src, cmt, ret) ==
  [op |-> op, phase |-> phase, pos |-> pos, num |-> num, src |-> src,
   cmt |-> cmt, ret |-> ret]

\* Issues already on the service before the first run, as an earlier
\* migration (or somebody else) left them: issues 1..n, the highest with c
\* comments and the title of the archive's issue, or without comments and
\* with a title the archive does not have, the others without comments.
PriorIssue(i, t, c) ==
  [title |-> t, comments |-> [k \in 1..c |-> <<i, k>>], open |-> TRUE]

PriorService(n, t, c) ==
  [i \in 1..n |-> IF i = n THEN PriorIssue(i, t, c)
                           ELSE PriorIssue(i, Title(i), 0)]

PriorServices ==
  {NoIssues} \cup
  { PriorService(n, Title(n), c) : n \in 1..MaxIssues, c \in 0..MaxComments }
  \cup
  { PriorService(n, Title(0), 0) : n \in 1..MaxIssues }

\* ---- the text functions (FixUpComment, GoogleCodeComment.GetContent) ----

\* What a comment is made of: the characters that matter to FixUpComment
\* ("1" stands for any digit) and, each as one piece, the two markers it
\* looks for.
Atoms == {"#", " ", "1", "\n", "Index: ", "--- cut here ---"}

IsDigit(a) == a = "1"

\* The comments of n pieces.
Comments(n) == [1..n -> Atoms]

\* comment.split("\n")
RECURSIVE Split(_)
Split(s) ==
  LET breaks == {i \in 1..Len(s) : s[i] = "\n"}
  IN IF breaks = {} THEN <<s>>
     ELSE <<SubSeq(s, 1, Min(breaks) - 1)>>
          \o Split(SubSeq(s, Min(breaks) + 1, Len(s)))

\* '\n'.join(formatted)
RECURSIVE Join(_)
Join(lines) ==
  IF Len(lines) = 1 THEN lines[1]
  ELSE lines[1] \o <<"\n">> \o Join(Tail(lines))

\* re.match(r'^#+ ', line)
MatchesHeading(line) ==
  \E n \in 1..(Len(line) - 1) :
    /\ \A j \in 1..n : line[j] = "#"
    /\ line[n + 1] = " "

\* re.match(r'^Index: ', line)
StartsWithIndex(line) == Len(line) >= 1 /\ line[1] = "Index: "

\* '--- cut here ---' in line
HasCutHere(line) == \E j \in 1..Len(line) : line[j] = "--- cut here ---"

PreformatThisLineOnly(preformat_rest_of_comment, line) ==
  MatchesHeading(line) \/ StartsWithIndex(line) \/ HasCutHere(line)

\* FixUpComment, lines 417-420: the flag after the tests of one line
Preformat(preformat_rest_of_comment, line) ==
  \/ preformat_rest_of_comment
  \/ MatchesHeading(line) \/ StartsWithIndex(line) \/ HasCutHere(line)

\* FixUpComment, line 427: re.sub(r"#(\d+)", r"#&nbsp;\g<1>", line), from
\* position i of the line on
RECURSIVE EscapeRefs(_, _)
EscapeRefs(line, i) ==
  IF i > Len(line) THEN <<>>
  ELSE IF line[i] = "#" /\ i < Len(line) /\ IsDigit(line[i + 1])
  THEN <<"#", "&nbsp;">> \o EscapeRefs(line, i + 1)
  ELSE <<line[i]>> \o EscapeRefs(line, i + 1)

\* FixUpComment, line 422: "    %s" % line
Indented(line) == <<"    ">> \o line

\* FixUpComment, the loop of lines 416-428 from line k on
RECURSIVE FixUpLines(_, _, _)
FixUpLines(lines, k, preformat_rest_of_comment) ==
  IF k > Len(lines) THEN <<>>
  ELSE LET preformat == Preformat(preformat_rest_of_comment, lines[k])
       IN <<IF preformat THEN Indented(lines[k])
            ELSE EscapeRefs(lines[k], 1)>>
          \o FixUpLines(lines, k + 1, preformat)

FixUpComment(comment) == Join(FixUpLines(Split(comment), 1, FALSE))

\* The file names of attachments: a stem and what the name ends with.
Extensions ==
  {".png", ".PNG", ".jpg", ".JPG", ".jpeg", ".bmp", ".tif", ".gif", ".txt",
   "png", ""}

FileNames == { [stem |-> "shot", ext |-> e] : e \in Extensions }

\* An attachment dict: "fileName", and "isDeleted" if it was deleted.
Attachments ==
  { [fileName |-> f, isDeleted |-> d] : f \in FileNames, d \in BOOLEAN }

AttachmentLists == UNION { [1..n -> Attachments] : n \in 0..MaxAttachments }

\* str.lower() of what a name ends with
LowerExt(e) ==
  CASE e = ".PNG" -> ".png"
    [] e = ".JPG" -> ".jpg"
    [] OTHER -> e

\* GetContent, lines 270-271
has_extension(attachment, extension) ==
  LowerExt(attachment.fileName.ext) = extension

ImageExtensions == <<".png", ".jpg", ".jpeg", ".bmp", ".tif", ".gif">>

\* GetContent, lines 273-275: the loop tests ".png" at every pass
is_image_attachment(attachment) ==
  \E k \in 1..Len(ImageExtensions) : has_extension(attachment, ".png")

\* GetContent, lines 266-268
Link(attachment) == <<"https://storage.googleapis.com/", attachment.fileName>>

DeletedLine(attachment) ==
  <<" * *Attachment: ", attachment.fileName, " (deleted)*">>

ImageLine(attachment) ==
  <<" * *Attachment: ", attachment.fileName, "<br>![", attachment.fileName,
    "](", Link(attachment), ")*">>

LinkLine(attachment) ==
  <<" * *Attachment: [", attachment.fileName, "](", Link(attachment), ")*">>

\* GetContent, lines 261-282: the line of one attachment
AttachmentLine(attachment) ==
  IF attachment.isDeleted THEN DeletedLine(attachment)
  ELSE IF is_image_attachment(attachment) THEN ImageLine(attachment)
  ELSE LinkLine(attachment)

\* GetContent: the content, and after it the attachment lines if any
GetContent(content, atts) ==
  LET attachmentLines == [k \in 1..Len(atts) |-> AttachmentLine(atts[k])]
  IN IF Len(attachmentLines) > 0
     THEN <<content, "\n<hr>\n", attachmentLines>>
     ELSE <<content>>

\* Neither function has been applied.
TextIdle ==
  /\ tpc = "idle"
  /\ comment_text = <<>>
  /\ fixed_text = <<>>
  /\ attachments = <<>>
  /\ body = <<>>

\* ---- IssueExporter ----

\* __init__
Constructed ==
  /\ open_issues' = <<>>
  /\ issues' = <<>>
  /\ previously_created_issues' = <<>>
  /\ issue_total' = 0
  /\ issue_number' = 0
  /\ comment_number' = 0
  /\ comment_total' = 0
  /\ skipped_issues' = 0
  /\ last_pos' = 0
  /\ ridx' = 0
  /\ new_number' = 0

Init ==
  /\ archive \in Archives
  /\ gh \in PriorServices
  /\ fromEmpty = (gh = NoIssues)
  /\ pc = "init"
  /\ error = "none"
  /\ open_issues = <<>>
  /\ issues = <<>>
  /\ previously_created_issues = <<>>
  /\ issue_total = 0
  /\ issue_number = 0
  /\ comment_number = 0
  /\ comment_total = 0
  /\ skipped_issues = 0
  /\ last_pos = 0
  /\ ridx = 0
  /\ new_number = 0
  /\ calls = <<>>
  /\ failed = <<>>
  /\ declined = FALSE
  /\ completed = FALSE
  /\ createdAll = FALSE
  /\ TextIdle

IsDuplicateNever(id, index) == FALSE

\* _GetAllPreviousIssues, the test of line 525
IsDuplicate(id, index) == id \in DOMAIN index

RecordedWithoutCount(index, issue) ==
  (issue.id :> [title |-> issue.title, comment_count |-> 0]) @@ index

\* _GetAllPreviousIssues, the assignment of lines 527-530
Recorded(index, issue) ==
  (issue.id :> [title |-> issue.title, comment_count |-> issue.comments])
    @@ index

\* _GetAllPreviousIssues, the loop of lines 523-530 from position k on:
\* the index it leaves and the position of the entry it died at (0: none).
RECURSIVE PreviousIssuesLoop(_, _, _)
PreviousIssuesLoop(all, k, index) ==
  IF k > Len(all) THEN [index |-> index, dup |-> 0]
  ELSE IF IsDuplicate(all[k].id, index) THEN [index |-> index, dup |-> k]
  ELSE PreviousIssuesLoop(all, k + 1, Recorded(index, all[k]))

LastIdLowest(index) == Min(DOMAIN index)

\* Start, lines 594-597
LastId(index) == Max(DOMAIN index \cup {-1})

FindLastGcIssueById(arch, id, title) ==
  LET found == {k \in 1..Len(arch) : arch[k].id = id}
  IN IF found = {} THEN 0 ELSE Min(found)

\* Start, lines 600-606: the position of the first archive issue with that
\* id and title (0: last_gc_issue is None).
FindLastGcIssue(arch, id, title) ==
  LET found == {k \in 1..Len(arch) : arch[k].id = id /\ arch[k].title = title}
  IN IF found = {} THEN 0 ELSE Min(found)

RepairRangeSkipFirst(comment_count, num) == (comment_count + 1)..(num - 1)

RepairRangeFromZero(comment_count, num) == 0..(num - 1)

RepairRangeLast(comment_count, num) ==
  (IF num > 0 THEN num - 1 ELSE 0)..(num - 1)

\* Start, line 622: range(comment_count, num_gc_issue_comments)
RepairRange(comment_count, num) == comment_count..(num - 1)

InIndexNever(id, index) == FALSE

\* Start, line 643
InIndex(id, index) == id \in DOMAIN index

IsSentinelNever(number) == FALSE

\* Start, line 648
IsSentinel(number) == number < 0

IdMismatchIgnored(number, id) == FALSE

IdMismatchAbove(number, id) == number > id

\* Start, line 650
IdMismatch(number, id) == number # id

IndexAfterCreateRecords(index, number, issue) ==
  (number :> [title |-> GetTitle(issue), comment_count |-> 0]) @@ index

\* Start, lines 647-655: creating an issue leaves the index as Init built it
IndexAfterCreate(index, number, issue) == index

CommentCountersWithoutTotal(comments) == [total |-> 0, number |-> 0]

\* _CreateComments, lines 569-570
CommentCounters(comments) == [total |-> Len(comments), number |-> 0]

\* Start, line 657: where the loop goes after _CreateComments
AfterComments(issue) == IF ~IsOpen(issue) THEN "close" ELSE "loop"

\* What CreateIssue can answer: the number of the issue it made, or the
\* sentinel of a service that declines to make one.
CreateIssueAnswers(g) == {NextNumber(g), -1}

\* Init, line 520
GetOpenIssues ==
  /\ UNCHANGED <<failed, text>>
  /\ pc = "init"
  /\ open_issues' = GetIssues(gh, "open")
  /\ calls' = Append(calls, Call("GetIssues", "init", 0, 0, 0, 0, 0))
  /\ pc' = "init_closed"
  /\ UNCHANGED <<archive, gh, error, issues, previously_created_issues,
                 issue_total, issue_number, comment_number, comment_total,
                 skipped_issues, last_pos, ridx, new_number, history>>

\* Init, lines 521-530
GetClosedIssues ==
  /\ UNCHANGED <<failed, text>>
  /\ pc = "init_closed"
  /\ \E closed_issues \in ClosedAnswers(gh) :
       LET all == open_issues \o closed_issues
           r == PreviousIssuesLoop(all, 1, <<>>)
       IN /\ issues' = all
          /\ previously_created_issues' = r.index
          /\ IF r.dup = 0
             THEN pc' = "start" /\ error' = "none"
             ELSE pc' = "aborted" /\ error' = "duplicate"
  /\ calls' = Append(calls, Call("GetIssues", "init", 0, 0, 0, 0, 0))
  /\ UNCHANGED <<archive, gh, open_issues, issue_total, issue_number,
                 comment_number, comment_total, skipped_issues, last_pos,
                 ridx, new_number, history>>

\* Start, lines 632-634
EnterLoop ==
  /\ issue_total' = Len(archive)
  /\ issue_number' = 0
  /\ skipped_issues' = 0
  /\ pc' = "loop"
  /\ error' = "none"

\* Start, lines 588-620
StartBegin ==
  /\ UNCHANGED <<failed, text>>
  /\ pc = "start"
  /\ IF DOMAIN previously_created_issues = {}
     THEN EnterLoop /\ UNCHANGED <<last_pos, ridx>>
     ELSE LET last_gh_issue_id == LastId(previously_created_issues)
              last_gh_issue == previously_created_issues[last_gh_issue_id]
              pos == FindLastGcIssue(archive, last_gh_issue_id,
                                     last_gh_issue.title)
          IN IF pos = 0
             THEN /\ pc' = "aborted"
                  /\ error' = "nomatch"
                  /\ UNCHANGED <<last_pos, ridx, issue_total, issue_number,
                                 skipped_issues>>
             ELSE LET num == Len(GetComments(archive[pos]))
                      todo == RepairRange(last_gh_issue.comment_count, num)
                  IN /\ last_pos' = pos
                     /\ IF last_gh_issue.comment_count # num /\ todo # {}
                        THEN /\ ridx' = Min(todo)
                             /\ pc' = "repair"
                             /\ error' = "none"
                             /\ UNCHANGED <<issue_total, issue_number,
                                            skipped_issues>>
                        ELSE EnterLoop /\ UNCHANGED ridx
  /\ UNCHANGED <<archive, gh, open_issues, issues, previously_created_issues,
                 comment_number, comment_total, new_number, calls, history>>

\* Start, lines 622-628: one pass of the repair loop
RepairComment ==
  /\ UNCHANGED <<failed, text>>
  /\ pc = "repair"
  /\ LET last_gc_issue == archive[last_pos]
         last_gh_issue == previously_created_issues[GetId(last_gc_issue)]
         num == Len(GetComments(last_gc_issue))
         comment == GetComments(last_gc_issue)[ridx + 1]
     IN /\ gh' = SvcCreateComment(gh, GetId(last_gc_issue),
                                  GetId(last_gc_issue), comment)
        /\ calls' = Append(calls, Call("CreateComment", "repair", last_pos,
                                       GetId(last_gc_issue),
                                       GetId(last_gc_issue), comment, 0))
        /\ ridx' = ridx + 1
        /\ IF ridx + 1 \in RepairRange(last_gh_issue.comment_count, num)
           THEN UNCHANGED <<pc, error, issue_total, issue_number,
                            skipped_issues>>
           ELSE EnterLoop
  /\ UNCHANGED <<archive, open_issues, issues, previously_created_issues,
                 comment_number, comment_total, last_pos, new_number, history>>

\* Start, lines 635-645: an issue that is in the index
LoopSkip ==
  /\ UNCHANGED <<failed, text>>
  /\ pc = "loop"
  /\ issue_number < Len(archive)
  /\ InIndex(GetId(archive[issue_number + 1]), previously_created_issues)
  /\ issue_number' = issue_number + 1
  /\ skipped_issues' = skipped_issues + 1
  /\ UNCHANGED <<archive, gh, pc, error, open_issues, issues,
                 previously_created_issues, issue_total, comment_number,
                 comment_total, last_pos, ridx, new_number, calls, history>>

\* Start, lines 635-655 and _CreateComments, lines 569-570: an issue that is
\* not in the index
LoopCreate ==
  /\ UNCHANGED <<failed, text>>
  /\ pc = "loop"
  /\ issue_number < Len(archive)
  /\ LET googlecode_issue == archive[issue_number + 1]
     IN /\ ~InIndex(GetId(googlecode_issue), previously_created_issues)
        /\ \E number \in CreateIssueAnswers(gh) :
             /\ gh' = IF number < 0 THEN gh
                      ELSE SvcCreateIssue(gh, googlecode_issue)
             /\ calls' = Append(calls, Call("CreateIssue", "main",
                                            issue_number + 1, 0,
                                            GetId(googlecode_issue), 0, number))
             /\ new_number' = number
             /\ previously_created_issues' =
                  IF IsSentinel(number)
                  THEN previously_created_issues
                  ELSE IndexAfterCreate(previously_created_issues, number,
                                        googlecode_issue)
             /\ declined' = (declined \/ (fromEmpty /\ number < 0))
             /\ IF IsSentinel(number)
                THEN /\ pc' = "loop"
                     /\ UNCHANGED <<error, comment_number, comment_total>>
                ELSE IF IdMismatch(number, GetId(googlecode_issue))
                THEN /\ pc' = "aborted"
                     /\ error' = "mismatch"
                     /\ UNCHANGED <<comment_number, comment_total>>
                ELSE /\ comment_total' =
                          CommentCounters(GetComments(googlecode_issue)).total
                     /\ comment_number' =
                          CommentCounters(GetComments(googlecode_issue)).number
                     /\ error' = "none"
                     /\ pc' = IF GetComments(googlecode_issue) = <<>>
                              THEN AfterComments(googlecode_issue)
                              ELSE "comments"
  /\ issue_number' = issue_number + 1
  /\ UNCHANGED <<archive, open_issues, issues, issue_total, skipped_issues,
                 last_pos, ridx, fromEmpty, completed, createdAll>>

\* _CreateComments, lines 572-579: one pass of its loop
CreateComments ==
  /\ UNCHANGED <<failed, text>>
  /\ pc = "comments"
  /\ LET googlecode_issue == archive[issue_number]
         comment == GetComments(googlecode_issue)[comment_number + 1]
     IN /\ comment_number' = comment_number + 1
        /\ gh' = SvcCreateComment(gh, new_number, GetId(googlecode_issue),
                                  comment)
        /\ calls' = Append(calls, Call("CreateComment", "main", issue_number,
                                       new_number, GetId(googlecode_issue),
                                       comment, 0))
        /\ pc' = IF comment_number + 1 < Len(GetComments(googlecode_issue))
                 THEN "comments"
                 ELSE AfterComments(googlecode_issue)
  /\ UNCHANGED <<archive, error, open_issues, issues,
                 previously_created_issues, issue_total, issue_number,
                 comment_total, skipped_issues, last_pos, ridx, new_number,
                 history>>

\* Start, line 658
CloseIssue ==
  /\ UNCHANGED <<failed, text>>
  /\ pc = "close"
  /\ gh' = SvcCloseIssue(gh, new_number)
  /\ calls' = Append(calls, Call("CloseIssue", "main", issue_number,
                                 new_number, 0, 0, 0))
  /\ pc' = "loop"
  /\ UNCHANGED <<archive, error, engine, history>>

\* Start, lines 635 and 661-663: the archive is exhausted
LoopDone ==
  /\ UNCHANGED <<failed, text>>
  /\ pc = "loop"
  /\ issue_number = Len(archive)
  /\ pc' = "done"
  /\ UNCHANGED <<archive, gh, error, engine, calls, history>>

\* The service call the run is about to make.
PendingCall ==
  CASE pc \in {"init", "init_closed"} ->
         Call("GetIssues", "init", 0, 0, 0, 0, 0)
    [] pc = "repair" ->
         Call("CreateComment", "repair", last_pos, GetId(archive[last_pos]),
              GetId(archive[last_pos]),
              GetComments(archive[last_pos])[ridx + 1], 0)
    [] pc = "loop" ->
         Call("CreateIssue", "main", issue_number + 1, 0,
              GetId(archive[issue_number + 1]), 0, 0)
    [] pc = "comments" ->
         Call("CreateComment", "main", issue_number, new_number,
              GetId(archive[issue_number]),
              GetComments(archive[issue_number])[comment_number + 1], 0)
    [] pc = "close" ->
         Call("CloseIssue", "main", issue_number, new_number, 0, 0, 0)

AfterServiceErrorRetry(at) == at

\* Init and Start have no try/except around a service call: the exception
\* leaves the engine from wherever the call was made.
AfterServiceError(at) == "aborted"

\* A service call raises ServiceError (lines 520, 521, 625, 647, 576, 658);
\* the counters of lines 639 and 574 are advanced before the call.
ServiceFails ==
  /\ pc \in {"init", "init_closed", "repair", "loop", "comments", "close"}
  /\ pc = "loop" =>
       /\ issue_number < Len(archive)
       /\ ~InIndex(GetId(archive[issue_number + 1]),
                   previously_created_issues)
  /\ failed = <<>>
  /\ failed' = <<[call |-> PendingCall, after |-> Len(calls)]>>
  /\ pc' = AfterServiceError(pc)
  /\ error' = "service"
  /\ issue_number' = IF pc = "loop" THEN issue_number + 1 ELSE issue_number
  /\ comment_number' = IF pc = "comments" THEN comment_number + 1
                       ELSE comment_number
  /\ UNCHANGED <<archive, gh, open_issues, issues, previously_created_issues,
                 issue_total, comment_total, skipped_issues, last_pos, ridx,
                 new_number, calls, history, text>>

NoSentinel(cs) ==
  \A k \in 1..Len(cs) : ~(cs[k].op = "CreateIssue" /\ cs[k].ret < 0)

\* The process is killed between two service calls, and the tool is started
\* again.
Interrupt ==
  /\ pc \in {"init_closed", "start", "repair", "loop", "comments", "close"}
  /\ pc' = "init"
  /\ error' = "none"
  /\ calls' = <<>>
  /\ failed' = <<>>
  /\ Constructed
  /\ UNCHANGED <<archive, gh, fromEmpty, declined, completed, createdAll,
                 text>>

\* The tool is started again after a run that ended.
Rerun ==
  /\ pc \in {"done", "aborted"}
  /\ completed' = (completed \/ (fromEmpty /\ pc = "done"))
  /\ createdAll' =
       (createdAll \/ (fromEmpty /\ pc = "done" /\ NoSentinel(calls)))
  /\ pc' = "init"
  /\ error' = "none"
  /\ calls' = <<>>
  /\ failed' = <<>>
  /\ Constructed
  /\ UNCHANGED <<archive, gh, fromEmpty, declined, text>>

Next ==
  \/ GetOpenIssues
  \/ GetClosedIssues
  \/ StartBegin
  \/ RepairComment
  \/ LoopSkip
  \/ LoopCreate
  \/ CreateComments
  \/ CloseIssue
  \/ LoopDone
  \/ ServiceFails
  \/ Interrupt
  \/ Rerun

Spec == Init /\ [][Next]_vars

TypeOK ==
  /\ pc \in {"init", "init_closed", "start", "repair", "loop", "comments",
             "close", "done", "aborted"}
  /\ error \in {"none", "duplicate", "nomatch", "mismatch", "service"}

\* ---- the text functions on their own ----

\* No migration is running.
NoRun ==
  /\ archive = <<>>
  /\ gh = NoIssues
  /\ pc = "done"
  /\ error = "none"
  /\ open_issues = <<>>
  /\ issues = <<>>
  /\ previously_created_issues = <<>>
  /\ issue_total = 0
  /\ issue_number = 0
  /\ comment_number = 0
  /\ comment_total = 0
  /\ skipped_issues = 0
  /\ last_pos = 0
  /\ ridx = 0
  /\ new_number = 0
  /\ calls = <<>>
  /\ failed = <<>>
  /\ fromEmpty = TRUE
  /\ declined = FALSE
  /\ completed = FALSE
  /\ createdAll = FALSE

TextInit == NoRun /\ TextIdle

\* FixUpComment is applied to a comment.
FixUp ==
  /\ tpc = "idle"
  /\ \E n \in 0..MaxCommentLen : \E c \in Comments(n) :
       /\ comment_text' = c
       /\ fixed_text' = FixUpComment(c)
  /\ tpc' = "fixed"
  /\ UNCHANGED <<attachments, body, exporter>>

\* GetContent is applied to a comment with attachments.
Render ==
  /\ tpc = "idle"
  /\ \E a \in AttachmentLists :
       /\ attachments' = a
       /\ body' = GetContent("content", a)
  /\ tpc' = "rendered"
  /\ UNCHANGED <<comment_text, fixed_text, exporter>>

TextNext == FixUp \/ Render

TextSpec == TextInit /\ [][TextNext]_vars

\* ---- properties ----

Mutating(c) == c.op \in {"CreateIssue", "CreateComment", "CloseIssue"}

NoMutatingCall == \A k \in 1..Len(calls) : ~Mutating(calls[k])

\* The archive's issues have the ids 1..N in order.
SequentialArchive == \A k \in 1..Len(archive) : archive[k].id = k

\* The replies of the archive issue at position p, as the service holds them.
ExpectedComments(p) ==
  [j \in 1..(Len(archive[p].items) - 1) |->
     <<archive[p].id, archive[p].items[j + 1]>>]

\* Start has left its repair block.
PastRepair ==
  \/ pc \in {"loop", "comments", "close", "done"}
  \/ pc = "aborted" /\ error = "mismatch"

HighestIndexed ==
  CHOOSE i \in DOMAIN previously_created_issues :
    \A j \in DOMAIN previously_created_issues : j <= i

RepairCalls == SelectSeq(calls, LAMBDA c : c.phase = "repair")

\* C1: from an empty service that numbers issues 1, 2, 3, ... and an archive
\* with the ids 1..N in order, when a run completes (after any interrupted
\* runs) every archive issue is on the service with exactly its replies, in
\* archive order, each once.
C1_CommentsComplete ==
  (fromEmpty /\ ~declined /\ SequentialArchive /\ pc = "done") =>
    \A p \in 1..Len(archive) :
      /\ p \in DOMAIN gh
      /\ gh[p].comments = ExpectedComments(p)

\* A resumed run that repaired an issue, created another and completed.
C1_Witness ==
  /\ fromEmpty /\ ~declined /\ SequentialArchive /\ pc = "done"
  /\ \E k \in 1..Len(calls) : calls[k].phase = "repair"
  /\ \E k \in 1..Len(calls) : calls[k].op = "CreateIssue"

\* C2: from an empty service that numbers issues 1, 2, 3, ... and an archive
\* with the ids 1..N in order, when a run completes every archive issue that
\* is not open is closed on the service.
C2_StatusPreserved ==
  (fromEmpty /\ ~declined /\ SequentialArchive /\ pc = "done") =>
    \A p \in 1..Len(archive) :
      archive[p].state # "open" => (p \in DOMAIN gh /\ ~gh[p].open)

\* C3 as stated: once a run has completed against an initially empty
\* service, a further run makes no CreateIssue, CreateComment or CloseIssue
\* call and ends with every archive issue skipped.
C3_Original ==
  (fromEmpty /\ completed) =>
    /\ NoMutatingCall
    /\ pc = "done" => skipped_issues = Len(archive)

C3_FurtherRun ==
  (fromEmpty /\ createdAll) =>
    /\ NoMutatingCall
    /\ pc = "done" => skipped_issues = Len(archive)

\* C3: once a run has completed against an initially empty service without
\* CreateIssue answering the sentinel, a further run makes no CreateIssue,
\* CreateComment or CloseIssue call, leaves the service's issues and
\* comments as they are and ends with every archive issue skipped.
C3_IdempotentRerun ==
  /\ []C3_FurtherRun
  /\ [][(fromEmpty /\ createdAll) => gh' = gh]_vars

\* A further run that completed over an archive of two issues.
C3_Witness ==
  /\ fromEmpty /\ createdAll /\ pc = "done"
  /\ Len(archive) >= 2
  /\ skipped_issues = Len(archive)

\* C4: when the index is not empty and the service recorded c comments for
\* its highest id where the matching archive issue has n > c replies, the
\* repair block calls CreateComment exactly for the replies at positions
\* c..n-1, in that order, each on the issue with the highest id.
C4_RepairSuffix ==
  (PastRepair /\ DOMAIN previously_created_issues # {}) =>
    \A p \in 1..Len(archive) :
      LET lastId == HighestIndexed
          c == previously_created_issues[lastId].comment_count
          n == Len(archive[p].items) - 1
      IN (/\ archive[p].id = lastId
          /\ archive[p].title = previously_created_issues[lastId].title
          /\ c < n) =>
           RepairCalls =
             [j \in 1..(n - c) |->
                Call("CreateComment", "repair", p, lastId, lastId,
                     archive[p].items[c + j + 1], 0)]

\* A repair that found one comment on the service and added the rest.
C4_Witness ==
  /\ PastRepair
  /\ DOMAIN previously_created_issues # {}
  /\ previously_created_issues[HighestIndexed].comment_count >= 1
  /\ Len(RepairCalls) >= 1

\* C5: a CreateIssue that answers a number >= 0 other than the issue's id
\* is the last service call of the run, which ends with the mismatch error.
C5_MismatchAborts ==
  \A k \in 1..Len(calls) :
    (/\ calls[k].op = "CreateIssue"
     /\ calls[k].ret >= 0
     /\ calls[k].ret # calls[k].src) =>
      /\ k = Len(calls)
      /\ pc = "aborted"
      /\ error = "mismatch"

\* The run ended on a mismatch with archive issues still to come.
C5_Witness ==
  /\ pc = "aborted" /\ error = "mismatch"
  /\ issue_number < Len(archive)

\* C6: when the index is not empty and no archive issue has the highest
\* indexed id and the title recorded for it, Start ends with an error and
\* the run has made no CreateIssue, CreateComment or CloseIssue call: the
\* service is as Init listed it.
C6_ResumeMismatchFatal ==
  (/\ pc \notin {"init", "init_closed", "start"}
   /\ DOMAIN previously_created_issues # {}
   /\ error # "duplicate"
   /\ ~\E p \in 1..Len(archive) :
         /\ archive[p].id = HighestIndexed
         /\ archive[p].title = previously_created_issues[HighestIndexed].title)
  => /\ pc = "aborted"
     /\ error = "nomatch"
     /\ NoMutatingCall
     /\ DOMAIN gh = {issues[k].id : k \in 1..Len(issues)}
     /\ \A k \in 1..Len(issues) :
          /\ gh[issues[k].id].title = issues[k].title
          /\ Len(gh[issues[k].id].comments) = issues[k].comments

\* Start ended so on an issue whose id the archive has, under another title.
C6_Witness ==
  /\ pc = "aborted" /\ error = "nomatch"
  /\ \E p \in 1..Len(archive) : archive[p].id = HighestIndexed

\* The positions of the listing that repeat an earlier entry's id.
Repeats(all) ==
  {k \in 1..Len(all) : \E j \in 1..(k - 1) : all[j].id = all[k].id}

\* C7: if the open list followed by the closed list repeats an id, Init
\* ends with an error at the first repeat, the index holding the entries
\* before it as they were listed; otherwise Init succeeds and the index has
\* exactly the listed ids.
C7_DuplicateFatal ==
  pc \notin {"init", "init_closed"} =>
    IF Repeats(issues) # {}
    THEN LET k == Min(Repeats(issues))
         IN /\ pc = "aborted"
            /\ error = "duplicate"
            /\ DOMAIN previously_created_issues =
                 {issues[j].id : j \in 1..(k - 1)}
            /\ \A j \in 1..(k - 1) :
                 previously_created_issues[issues[j].id] =
                   [title |-> issues[j].title,
                    comment_count |-> issues[j].comments]
    ELSE /\ error # "duplicate"
         /\ DOMAIN previously_created_issues =
              {issues[j].id : j \in 1..Len(issues)}

\* Init ended on a repeated id whose second entry differs from the first.
C7_Witness ==
  /\ error = "duplicate"
  /\ \E k \in Repeats(issues) : \E j \in 1..(k - 1) :
       /\ issues[j].id = issues[k].id
       /\ issues[j].comments # issues[k].comments

\* The CreateIssue calls of the main loop that made the issue they asked for.
Created == {k \in 1..Len(calls) :
              calls[k].op = "CreateIssue" /\ calls[k].ret = calls[k].src}

ClosesOf(p) == {j \in 1..Len(calls) :
                  calls[j].op = "CloseIssue" /\ calls[j].pos = p}

\* C8 as stated: an issue the main loop created is closed if and only if
\* its status, with "accepted" read as "open", is not "open".
C8_Original ==
  pc = "done" =>
    \A k \in Created :
      (ClosesOf(calls[k].pos) # {}) <=> (GetStatus(archive[calls[k].pos]) # "open")

\* C8: an issue the main loop created is closed if and only if its "state"
\* is not "open", whatever its status, and then by the call that follows
\* the replay of its last reply.
C8_CloseByState ==
  \A k \in Created :
    LET p == calls[k].pos
        n == Len(archive[p].items) - 1
    IN /\ archive[p].state = "open" => ClosesOf(p) = {}
       /\ archive[p].state # "open" =>
            /\ ClosesOf(p) \subseteq {k + n + 1}
            /\ (issue_number > p \/ pc \in {"loop", "done"}) =>
                 ClosesOf(p) = {k + n + 1}
       /\ ClosesOf(p) # {} =>
            /\ calls[k + n + 1].num = calls[k].ret
            /\ \A j \in 1..n :
                 calls[k + j].op = "CreateComment" /\ calls[k + j].pos = p

\* A completed run that created an open issue whose status is not "open"
\* and left it open, and created and closed an issue with replies.
C8_Witness ==
  /\ pc = "done"
  /\ \E k \in Created :
       /\ archive[calls[k].pos].state = "open"
       /\ GetStatus(archive[calls[k].pos]) # "open"
       /\ ClosesOf(calls[k].pos) = {}
  /\ \E k \in Created :
       /\ Len(archive[calls[k].pos].items) > 1
       /\ ClosesOf(calls[k].pos) # {}

\* C9: after a CreateIssue that answers a negative number the run makes no
\* CreateComment or CloseIssue call for that issue and does not end with an
\* error there: it goes on with the archive issues after it (where a later
\* call may raise).
C9_SentinelSkip ==
  \A k \in 1..Len(calls) :
    (calls[k].op = "CreateIssue" /\ calls[k].ret < 0) =>
      /\ \A j \in 1..Len(calls) :
           (j # k /\ calls[j].phase = "main") => calls[j].pos # calls[k].pos
      /\ \A j \in (k + 1)..Len(calls) : calls[j].pos > calls[k].pos
      /\ k = Len(calls) =>
           /\ \/ pc \in {"loop", "done"} /\ error = "none"
              \/ /\ pc = "aborted" /\ error = "service"
                 /\ failed[1].call.pos > calls[k].pos
           /\ issue_number >= calls[k].pos

\* A declined issue followed by a call for a later issue.
C9_Witness ==
  \E k \in 1..Len(calls) :
    /\ calls[k].op = "CreateIssue" /\ calls[k].ret < 0
    /\ k < Len(calls)

Indexed(p) == archive[p].id \in DOMAIN previously_created_issues

\* C10: the main loop makes no call for an archive issue whose id is in the
\* index, and skipped_issues counts the issues handled so far whose id is in
\* the index: at the end of the run, those of the whole archive.
C10_SkipIndexed ==
  PastRepair =>
    /\ \A p \in 1..issue_number :
         Indexed(p) =>
           \A k \in 1..Len(calls) :
             ~(calls[k].phase = "main" /\ calls[k].pos = p)
    /\ skipped_issues = Cardinality({p \in 1..issue_number : Indexed(p)})
    /\ pc = "done" => issue_number = Len(archive)

\* A completed run that skipped one issue and created another.
C10_Witness ==
  /\ pc = "done"
  /\ skipped_issues >= 1
  /\ skipped_issues < Len(archive)

\* C11: when a service call of Init or Start raises ServiceError the run
\* ends there with that error: the call is not made again and no other
\* service call follows it in the run.
C11_ServiceErrorEndsRun ==
  failed # <<>> =>
    /\ pc = "aborted"
    /\ error = "service"
    /\ Len(calls) = failed[1].after

\* A CreateComment of the main loop raised, after the issue was created.
C11_Witness ==
  /\ failed # <<>>
  /\ failed[1].call.op = "CreateComment"
  /\ failed[1].call.phase = "main"
  /\ calls[Len(calls)].op = "CreateIssue"

\* The first line that matches the heading pattern, starts with "Index: "
\* or contains "--- cut here ---" (one past the last line if none does).
FirstPreformatted(lines) ==
  LET found == {k \in 1..Len(lines) :
                  \/ MatchesHeading(lines[k])
                  \/ StartsWithIndex(lines[k])
                  \/ HasCutHere(lines[k])}
  IN IF found = {} THEN Len(lines) + 1 ELSE Min(found)

Without(line, a) == SelectSeq(line, LAMBDA x : x # a)

\* out is line with "&nbsp;" put between "#" and the digit after it,
\* wherever a digit follows a "#", and nowhere else.
Escaped(line, out) ==
  /\ Without(out, "&nbsp;") = line
  /\ \A j \in 1..Len(out) :
       /\ out[j] = "#" => ~(j < Len(out) /\ IsDigit(out[j + 1]))
       /\ out[j] = "&nbsp;" =>
            /\ j > 1 /\ out[j - 1] = "#"
            /\ j < Len(out) /\ IsDigit(out[j + 1])

\* C12: FixUpComment gives as many lines as it gets; with k the first line
\* that matches the heading pattern, starts with "Index: " or contains
\* "--- cut here ---", every line from k on is the input line after exactly
\* 4 spaces, with no "#<digits>" rewritten, and every line before k is the
\* input line with each "#<digits>" rewritten to "#&nbsp;<digits>" and
\* without indent.
C12_PreformatOneWay ==
  tpc = "fixed" =>
    LET lines == Split(comment_text)
        formatted == Split(fixed_text)
        k == FirstPreformatted(lines)
    IN /\ Len(formatted) = Len(lines)
       /\ \A i \in 1..Len(lines) :
            IF i >= k
            THEN formatted[i] = <<"    ">> \o lines[i]
            ELSE Escaped(lines[i], formatted[i])

\* A line with "#<digit>" that matches nothing itself, after the first line
\* that matches.
C12_Witness ==
  /\ tpc = "fixed"
  /\ LET lines == Split(comment_text)
     IN \E i \in 1..Len(lines) :
          /\ i > FirstPreformatted(lines)
          /\ FirstPreformatted(<<lines[i]>>) = 2
          /\ \E j \in 1..(Len(lines[i]) - 1) :
               lines[i][j] = "#" /\ IsDigit(lines[i][j + 1])

IsImageName(fileName) ==
  LowerExt(fileName.ext) \in {".png", ".jpg", ".jpeg", ".bmp", ".tif", ".gif"}

\* C13: GetContent renders an attachment that is not deleted as an inline
\* image if its file name ends, in any case, with .png, .jpg, .jpeg, .bmp,
\* .tif or .gif, and as a plain link otherwise; a deleted attachment as a
\* "(deleted)" notice without a link.
C13_AttachmentByExtension ==
  tpc = "rendered" =>
    \A k \in 1..Len(attachments) :
      LET attachment == attachments[k]
          line == body[3][k]
      IN IF attachment.isDeleted THEN line = DeletedLine(attachment)
         ELSE IF IsImageName(attachment.fileName)
         THEN line = ImageLine(attachment)
         ELSE line = LinkLine(attachment)

\* The main loop's calls for the archive issue at position p: what each
\* asks for.
MainCallsFor(p) ==
  LET cs == SelectSeq(calls, LAMBDA c : c.phase = "main" /\ c.pos = p)
  IN [k \in 1..Len(cs) |-> <<cs[k].op, cs[k].cmt>>]

\* CreateIssue, CreateComment for each reply in archive order, CloseIssue
\* if the issue is not open.
CallsInOrder(p) ==
  <<<<"CreateIssue", 0>>>>
  \o [j \in 1..(Len(archive[p].items) - 1) |->
        <<"CreateComment", archive[p].items[j + 1]>>]
  \o (IF archive[p].state = "open" THEN <<>> ELSE <<<<"CloseIssue", 0>>>>)

IsPrefix(s, t) == Len(s) <= Len(t) /\ \A k \in 1..Len(s) : s[k] = t[k]

\* C14: the main loop's calls for an archive issue all precede its calls
\* for a later one; the calls for one issue are CreateIssue, CreateComment
\* for its replies in archive order, then CloseIssue if it is not open, up
\* to where the run has got (or stopped).
C14_SequentialPerIssue ==
  /\ LET main == SelectSeq(calls, LAMBDA c : c.phase = "main")
     IN \A k \in 2..Len(main) : main[k - 1].pos <= main[k].pos
  /\ \A p \in 1..issue_number : IsPrefix(MainCallsFor(p), CallsInOrder(p))
  /\ \A k \in 1..Len(calls) :
       calls[k].phase = "main" => calls[k].pos <= issue_number

\* A run that made every call for an issue with two replies that is not
\* open, and then calls for the next issue.
C14_Witness ==
  \E p \in 1..(Len(archive) - 1) :
    /\ Len(archive[p].items) >= 3
    /\ MainCallsFor(p) = CallsInOrder(p)
    /\ Len(MainCallsFor(p)) = Len(archive[p].items) + 1
    /\ MainCallsFor(p + 1) # <<>>

Replies(p) == Len(archive[p].items) - 1

\* C15: from an empty service that numbers issues 1, 2, 3, ... and an
\* archive with the ids 1..N in order, whatever runs were interrupted and
\* wherever, every issue of the service but the highest has as many
\* comments as its archive issue has replies, and the highest has no more.
C15_OnlyHighestPartial ==
  (fromEmpty /\ ~declined /\ SequentialArchive) =>
    \A i \in DOMAIN gh :
      /\ i \in 1..Len(archive)
      /\ Len(gh[i].comments) <= Replies(i)
      /\ i < Max(DOMAIN gh) => Len(gh[i].comments) = Replies(i)

\* A new run begins on a service whose highest issue is short of comments
\* and whose other issue has its two.
C15_Witness ==
  /\ fromEmpty /\ ~declined /\ SequentialArchive
  /\ pc = "init"
  /\ DOMAIN gh = {1, 2}
  /\ Len(gh[1].comments) = 2
  /\ Len(gh[2].comments) < Replies(2)

\* C16: a run's CreateComment and CloseIssue calls on an issue of the index
\* are the repair block's CreateComment calls on the highest indexed id;
\* every other indexed issue keeps the number of comments Init listed, short
\* of the archive's or not.
C16_OnlyLastTouched ==
  (DOMAIN previously_created_issues # {} /\ error # "duplicate") =>
    /\ \A k \in 1..Len(calls) :
         (/\ calls[k].op \in {"CreateComment", "CloseIssue"}
          /\ calls[k].num \in DOMAIN previously_created_issues) =>
           /\ calls[k].num = HighestIndexed
           /\ calls[k].op = "CreateComment"
           /\ calls[k].phase = "repair"
    /\ \A i \in DOMAIN previously_created_issues :
         i # HighestIndexed =>
           Len(gh[i].comments) = previously_created_issues[i].comment_count

\* A completed run that repaired the highest indexed issue and left a lower
\* one short of comments.
C16_Witness ==
  /\ pc = "done"
  /\ RepairCalls # <<>>
  /\ \E p \in 1..Len(archive) :
       /\ Indexed(p)
       /\ archive[p].id # HighestIndexed
       /\ Len(gh[archive[p].id].comments) < Replies(p)

\* The index is what Init made of the listing.
IndexAsListed ==
  /\ DOMAIN previously_created_issues = {issues[j].id : j \in 1..Len(issues)}
  /\ \A j \in 1..Len(issues) :
       previously_created_issues[issues[j].id] =
         [title |-> issues[j].title, comment_count |-> issues[j].comments]

\* A step of Start (and not the killing of the process in it).
StartStep ==
  /\ pc \in {"start", "repair", "loop", "comments", "close"}
  /\ pc' # "init"

\* C17: no step of Start changes the index: it stays what Init made of the
\* listing, and the number of an issue the run creates is never in it.
C17_IndexImmutable ==
  /\ [][StartStep =>
          previously_created_issues' = previously_created_issues]_vars
  /\ []((pc \notin {"init", "init_closed"} /\ error # "duplicate") =>
          /\ IndexAsListed
          /\ \A k \in Created : calls[k].ret \notin DOMAIN previously_created_issues)

\* A completed run with an index that skipped one issue and created another.
C17_Witness ==
  /\ pc = "done"
  /\ DOMAIN previously_created_issues # {}
  /\ Created # {}
  /\ skipped_issues >= 1

\* C18 as stated: no step of Start lowers one of the five counters.
C18_Original ==
  [][StartStep =>
       /\ issue_number' >= issue_number
       /\ issue_total' >= issue_total
       /\ comment_number' >= comment_number
       /\ comment_total' >= comment_total
       /\ skipped_issues' >= skipped_issues]_vars

\* C18: no step of Start lowers issue_number, issue_total or skipped_issues;
\* the two comment counters are set when the comments of a newly created
\* issue begin, to 0 and to the number of its replies (which may be lower
\* than what they were), and no other step lowers them.
C18_CountersPerIssue ==
  [][StartStep =>
       /\ issue_number' >= issue_number
       /\ issue_total' >= issue_total
       /\ skipped_issues' >= skipped_issues
       /\ IF /\ Created' # Created
             /\ pc' # "aborted"
          THEN /\ issue_number' = issue_number + 1
               /\ comment_number' = 0
               /\ comment_total' = Replies(issue_number')
          ELSE /\ comment_number' >= comment_number
               /\ comment_total' = comment_total]_vars

\* The replay of an issue's comments begins with both comment counters
\* below what the issue before left.
C18_Witness ==
  /\ pc = "comments"
  /\ comment_number = 0
  /\ issue_number >= 2
  /\ comment_total < Replies(issue_number - 1)
  /\ calls[Len(calls) - 1].op = "CreateComment"

\* C19: every CreateComment call, of the repair block and of the main loop,
\* is made on the issue whose number is the id of the archive issue the
\* comment belongs to, and that issue is on the service when the call is
\* made: the comment is added to it.
C19_CommentOnMatchingIssue ==
  /\ [](\A k \in 1..Len(calls) :
          calls[k].op = "CreateComment" =>
            /\ calls[k].num = calls[k].src
            /\ calls[k].src = archive[calls[k].pos].id
            /\ calls[k].cmt \in
                 {archive[calls[k].pos].items[j] :
                    j \in 2..Len(archive[calls[k].pos].items)})
  /\ [][(/\ Len(calls') = Len(calls) + 1
         /\ calls'[Len(calls')].op = "CreateComment") =>
          LET c == calls'[Len(calls')]
          IN /\ c.num \in DOMAIN gh
             /\ gh'[c.num].comments =
                  Append(gh[c.num].comments, <<c.src, c.cmt>>)]_vars

\* A run that added a comment in the repair block and another in the main
\* loop.
C19_Witness ==
  /\ \E k \in 1..Len(calls) :
       calls[k].op = "CreateComment" /\ calls[k].phase = "repair"
  /\ \E k \in 1..Len(calls) :
       calls[k].op = "CreateComment" /\ calls[k].phase = "main"

\* The archive issue with the highest indexed id and its recorded title has
\* no more replies than the service recorded comments.
NothingToRepair ==
  /\ DOMAIN previously_created_issues # {}
  /\ \E p \in 1..Len(archive) :
       /\ archive[p].id = HighestIndexed
       /\ archive[p].title = previously_created_issues[HighestIndexed].title
       /\ previously_created_issues[HighestIndexed].comment_count >= Replies(p)

\* C20: when the service recorded at least as many comments for the highest
\* indexed id as the matching archive issue has replies, the repair block
\* makes no CreateComment call and raises nothing: Start goes on to the main
\* loop, and only the main loop can end the run with an error.
C20_RepairNoOp ==
  (NothingToRepair /\ pc # "start" /\ error # "duplicate") =>
    /\ RepairCalls = <<>>
    /\ pc \in {"loop", "comments", "close", "done", "aborted"}
    /\ pc = "aborted" =>
         \/ error = "mismatch"
         \/ error = "service" /\ failed[1].call.phase = "main"

\* The service recorded more comments than the archive issue has replies,
\* and the run went on to create the next issue and completed.
C20_Witness ==
  /\ NothingToRepair
  /\ pc = "done"
  /\ \E p \in 1..Len(archive) :
       /\ archive[p].id = HighestIndexed
       /\ previously_created_issues[HighestIndexed].comment_count > Replies(p)
  /\ Created # {}

====
